---------------------------- MODULE Spec2Model ----------------------------
(***************************************************************************)
(* The analytics aggregation engine of the bug-bounty tracker              *)
(* (src/src/components/AnalyticsView.tsx): the time-window filter and the  *)
(* six aggregator passes that fetchAnalyticsData runs over the fetched     *)
(* record collection, and the runs of fetchAnalyticsData themselves: each   *)
(* run yields at its two awaits (the user, then the bugs query) and ends   *)
(* with the data applied, with a failure toast, or with neither.           *)
(*                                                                         *)
(* Modelling conventions                                                   *)
(*  - A nullable field (T | null) is a sequence of length <= 1: <<>> is    *)
(*    null, <<x>> is the value x.                                          *)
(*  - A Date is a record [y, m, d, t]: local calendar year, month index    *)
(*    (0 = January, as Date.getMonth), day of month, and the time of day   *)
(*    t (0 = midnight exactly, 1 = later that day).  GetTime orders Dates  *)
(*    as Date.getTime does.                                                *)
(*  - A JavaScript number that results from a division is an exact         *)
(*    fraction [num, den] with den > 0.                                    *)
(*  - A plain object used as a map (const m: Record<string, T> = {}) is    *)
(*    the sequence of its own properties [key, val] in creation order;     *)
(*    the members it inherits from Object.prototype are ProtoKeys.         *)
(***************************************************************************)
EXTENDS Integers, Sequences, FiniteSets, TLC

VARIABLES
    now,            \* the clock read by new Date()
    db,             \* the Record Source: the user's bugs rows, as the query returns them
    timeRange,      \* useState timeRange
    loading,        \* useState loading
    bugs,           \* useState bugs (the unfiltered collection, allBugs)
    filteredBugs,   \* the local filteredBugs of the last run of fetchAnalyticsData
    stats,          \* useState stats
    monthlyData,    \* useState monthlyData
    severityData,   \* useState severityData
    statusData,     \* useState statusData
    platformData,   \* useState platformData
    topPrograms,    \* useState topPrograms
    inflight,       \* the runs of fetchAnalyticsData that have yielded at an await
    toast,          \* the toast shown last (useToast), or null
    outcome,        \* how the run that ended last ended (bookkeeping)
    newest,         \* how the run that started last ended, or pending (bookkeeping)
    heap,           \* the collaborator objects in memory, by reference
    reports,        \* useState reports of the bug reports page
    editingReport,  \* useState editingReport of the page: a report of reports, or null
    isModalOpen,    \* useState isModalOpen of the page
    collaborators,  \* useState collaborators of BugReportModal
    checklists,     \* useState checklists of Index: the completed flag of one item
    is_completed,   \* the item's row in checklist_items
    toggles,        \* the calls of toggleChecklistItem that have yielded at an await
    calls           \* the calls of toggleChecklistItem made, and those that wrote (bookkeeping)

\* The state of the bug reports page and of its modal
modalVars == <<heap, reports, editingReport, isModalOpen, collaborators>>

\* The state of the checklist item on the Index page
checklistVars == <<checklists, is_completed, toggles, calls>>

\* The state outside AnalyticsView
others == <<modalVars, checklistVars>>

vars == <<now, db, timeRange, loading, bugs, filteredBugs, stats, monthlyData,
          severityData, statusData, platformData, topPrograms,
          inflight, toast, outcome, newest, modalVars, checklistVars>>

-----------------------------------------------------------------------------
(* Nullable values *)

Null == <<>>
Some(x) == <<x>>
IsNull(o) == o = <<>>
Val(o) == o[1]

-----------------------------------------------------------------------------
(* Dates *)

IsLeapYear(y) == (y % 4 = 0 /\ y % 100 # 0) \/ y % 400 = 0

DaysInMonth(y, m) ==
    IF m = 1 THEN (IF IsLeapYear(y) THEN 29 ELSE 28)
    ELSE IF m \in {3, 5, 8, 10} THEN 30 ELSE 31

\* new Date(year, monthIndex, day): local midnight of that day; a month index
\* outside 0..11 carries into the year, and day 0 is the last day of the month
\* before.  The code passes day 0, 1 or 31 (of December) only.
NewDate(year, monthIndex, day) ==
    LET mm == year * 12 + monthIndex
        pm == mm - 1
    IN  IF day = 0
        THEN [y |-> pm \div 12, m |-> pm % 12,
              d |-> DaysInMonth(pm \div 12, pm % 12), t |-> 0]
        ELSE [y |-> mm \div 12, m |-> mm % 12, d |-> day, t |-> 0]

\* Date.getTime, up to a strictly increasing rescaling.
GetTime(date) == ((date.y * 12 + date.m) * 31 + (date.d - 1)) * 2 + date.t

\* A label of the month alone
MonthLabelNoYear(date) == <<date.m, 0>>

\* date.toLocaleDateString('en-US', { month: 'short', year: '2-digit' }):
\* the label "Mar 24" names the month and the last two digits of the year.
MonthLabel(date) == <<date.m, date.y % 100>>

-----------------------------------------------------------------------------
(* Fractions *)

Frac(n, d) == [num |-> n, den |-> d]
Zero == Frac(0, 1)
FracEq(a, b) == a.num * b.den = b.num * a.den
FracLe(a, b) == a.num * b.den <= b.num * a.den

\* Math.floor in the place of Math.round
MathFloor(n, d) == n \div d

\* Math.round of the non-negative fraction n / d: floor(n / d + 1/2).
MathRound(n, d) == (2 * n + d) \div (2 * d)

-----------------------------------------------------------------------------
(* Array helpers *)

\* bug.bounty_amount || 0
BountyOrZero(bug) ==
    IF IsNull(bug.bounty_amount) THEN 0 ELSE Val(bug.bounty_amount)

\* list.reduce((sum, bug) => sum + (bug.bounty_amount || 0), 0)
RECURSIVE SumBounty(_)
SumBounty(s) ==
    IF s = <<>> THEN 0 ELSE BountyOrZero(Head(s)) + SumBounty(Tail(s))

-----------------------------------------------------------------------------
(* Status classes (calculateStats, calculateMonthlyData, calculatePlatformData, *)
(* calculateTopPrograms each declare the same literals)                         *)

acceptedStatuses == {"Accepted", "Resolved", "Bounty Awarded"}
rejectedStatuses == {"Duplicate", "Not Applicable"}
\* Pending statuses that take in the statuses of the other views
pendingStatusesWide ==
    {"Draft", "Submitted", "Triaged", "New", "Need More Info", "Informative"}

pendingStatuses == {"Draft", "Submitted", "Triaged"}
\* [...acceptedStatuses, 'Duplicate', 'Not Applicable']
resolvedStatuses == acceptedStatuses \cup {"Duplicate", "Not Applicable"}

\* The statuses the other views can store
BUG_STATUSES ==
    {"Draft", "Submitted", "New", "Triaged", "Need More Info", "Accepted",
     "Duplicate", "Informative", "Not Applicable", "Resolved", "Bounty Awarded"}

-----------------------------------------------------------------------------
(* Time-Window Filter *)

\* Window starts with the six months counted forward
StartDateForward(range, clock) ==
    CASE range = "month" -> Some(NewDate(clock.y, clock.m, 1))
      [] range = "6months" -> Some(NewDate(clock.y, clock.m + 6, 1))
      [] range = "year" -> Some(NewDate(clock.y, 0, 1))
      [] OTHER -> Null

\* The start of the window, or null for the default branch of the switch.
StartDate(range, clock) ==
    CASE range = "month" -> Some(NewDate(clock.y, clock.m, 1))
      [] range = "6months" -> Some(NewDate(clock.y, clock.m - 6, 1))
      [] range = "year" -> Some(NewDate(clock.y, 0, 1))
      [] OTHER -> Null

\* A filter whose comparison is strict
filterBugsStrict(list, range, clock) ==
    LET startDate == StartDate(range, clock)
        Keep(bug) == GetTime(bug.created_at) > GetTime(Val(startDate))
    IN  IF IsNull(startDate) THEN list ELSE SelectSeq(list, Keep)

\* A filter whose default branch is the month window
filterDefaultMonth(list, range, clock) ==
    LET startDate == StartDate(range, clock)
        from == IF IsNull(startDate) THEN NewDate(clock.y, clock.m, 1)
                ELSE Val(startDate)
        Keep(bug) == GetTime(bug.created_at) >= GetTime(from)
    IN  SelectSeq(list, Keep)

\* A filter that also drops the first record it would keep
filterDropsFirst(list, range, clock) ==
    LET startDate == StartDate(range, clock)
        Keep(bug) == GetTime(bug.created_at) >= GetTime(Val(startDate))
        kept == SelectSeq(list, Keep)
    IN  IF IsNull(startDate) THEN list
        ELSE IF kept = <<>> THEN kept ELSE Tail(kept)

filterBugsByTimeRange(list, range, clock) ==
    LET startDate == StartDate(range, clock)
        Keep(bug) == GetTime(bug.created_at) >= GetTime(Val(startDate))
    IN  IF IsNull(startDate) THEN list ELSE SelectSeq(list, Keep)

-----------------------------------------------------------------------------
(* Summary Stats *)

\* 1000 * 60 * 60 * 24
MsPerDay == 1000 * 60 * 60 * 24

\* new Date("YYYY-MM-DD").getTime() for a SQL date, given as its day number:
\* the UTC midnight of that day, in milliseconds
ParseDate(day) == day * MsPerDay

\* Math.ceil(n / d) for d > 0
MathCeil(n, d) == 0 - ((0 - n) \div d)

\* A difference in days that is clamped at 0
ResolutionDaysClamped(bug) ==
    LET days == MathCeil(ParseDate(Val(bug.resolution_date))
                         - ParseDate(Val(bug.submission_date)), MsPerDay)
    IN  IF days < 0 THEN 0 ELSE days

\* Math.ceil((resolutionDate.getTime() - submissionDate.getTime()) / MsPerDay)
ResolutionDays(bug) ==
    MathCeil(ParseDate(Val(bug.resolution_date))
             - ParseDate(Val(bug.submission_date)), MsPerDay)

RECURSIVE SumDays(_)
SumDays(s) ==
    IF s = <<>> THEN 0 ELSE ResolutionDays(Head(s)) + SumDays(Tail(s))

\* Calendar sums that read the filtered collection
CalendarFromFiltered(filtered, allBugs) == filtered

\* The bugs the four calendar sums read: allBugs.
CalendarBugs(filtered, allBugs) == allBugs

\* date >= lastXStart && date <= lastXEnd
InClosedRange(date, first, last) ==
    GetTime(date) >= GetTime(first) /\ GetTime(date) <= GetTime(last)

\* A divisor that counts every record with a bounty_amount, zero included
HasBountyField(bug) == ~IsNull(bug.bounty_amount)

\* bug.bounty_amount && bug.bounty_amount > 0
HasBounty(bug) == ~IsNull(bug.bounty_amount) /\ Val(bug.bounty_amount) > 0

calculateStats(filtered, allBugs, clock) ==
    LET thisMonthStart == NewDate(clock.y, clock.m, 1)
        lastMonthStart == NewDate(clock.y, clock.m - 1, 1)
        lastMonthEnd == NewDate(clock.y, clock.m, 0)
        thisYearStart == NewDate(clock.y, 0, 1)
        lastYearStart == NewDate(clock.y - 1, 0, 1)
        lastYearEnd == NewDate(clock.y - 1, 11, 31)
        totalEarnings == SumBounty(filtered)
        IsAccepted(bug) == bug.status \in acceptedStatuses
        IsRejected(bug) == bug.status \in rejectedStatuses
        IsPending(bug) == bug.status \in pendingStatuses
        IsResolved(bug) ==
            bug.status \in acceptedStatuses \/ bug.status \in rejectedStatuses
        acceptedBugs == Len(SelectSeq(filtered, IsAccepted))
        rejectedBugs == Len(SelectSeq(filtered, IsRejected))
        pendingBugs == Len(SelectSeq(filtered, IsPending))
        resolvedBugs == SelectSeq(filtered, IsResolved)
        bugsWithBounty == SelectSeq(filtered, HasBounty)
        HasResolution(bug) ==
            ~IsNull(bug.submission_date) /\ ~IsNull(bug.resolution_date)
        bugsWithResolution == SelectSeq(filtered, HasResolution)
        calendar == CalendarBugs(filtered, allBugs)
        SinceMonth(bug) == GetTime(bug.created_at) >= GetTime(thisMonthStart)
        InLastMonth(bug) == InClosedRange(bug.created_at, lastMonthStart, lastMonthEnd)
        SinceYear(bug) == GetTime(bug.created_at) >= GetTime(thisYearStart)
        InLastYear(bug) == InClosedRange(bug.created_at, lastYearStart, lastYearEnd)
    IN  [totalBugs |-> Len(filtered),
         totalEarnings |-> totalEarnings,
         acceptedBugs |-> acceptedBugs,
         rejectedBugs |-> rejectedBugs,
         pendingBugs |-> pendingBugs,
         successRate |->
            IF Len(resolvedBugs) > 0
            THEN Frac(acceptedBugs * 100, Len(resolvedBugs)) ELSE Zero,
         avgBounty |->
            IF Len(bugsWithBounty) > 0
            THEN Frac(totalEarnings, Len(bugsWithBounty)) ELSE Zero,
         avgTimeToResolution |->
            IF Len(bugsWithResolution) > 0
            THEN Frac(SumDays(bugsWithResolution), Len(bugsWithResolution))
            ELSE Zero,
         thisMonthEarnings |-> SumBounty(SelectSeq(calendar, SinceMonth)),
         lastMonthEarnings |-> SumBounty(SelectSeq(calendar, InLastMonth)),
         thisYearEarnings |-> SumBounty(SelectSeq(calendar, SinceYear)),
         lastYearEarnings |-> SumBounty(SelectSeq(calendar, InLastYear))]

\* useState<AnalyticsStats>({ totalBugs: 0, ... })
InitialStats ==
    [totalBugs |-> 0, totalEarnings |-> 0, acceptedBugs |-> 0, rejectedBugs |-> 0,
     pendingBugs |-> 0, successRate |-> Zero, avgBounty |-> Zero,
     avgTimeToResolution |-> Zero, thisMonthEarnings |-> 0, lastMonthEarnings |-> 0,
     thisYearEarnings |-> 0, lastYearEarnings |-> 0]

-----------------------------------------------------------------------------
(* Plain objects used as maps: const map: Record<string, T> = {} *)

\* Names of members every plain object inherits from Object.prototype.
ProtoKeys ==
    {"constructor", "toString", "toLocaleString", "valueOf", "hasOwnProperty",
     "isPrototypeOf", "propertyIsEnumerable", "__proto__"}

\* The value of a key that is a canonical array index ("7", "42"), or -1: such
\* keys are enumerated first, in ascending numeric order.
ArrayIndex(key) ==
    CASE key = "7" -> 7
      [] key = "42" -> 42
      [] OTHER -> -1

HasOwn(map, key) == \E i \in 1..Len(map) : map[i].key = key

\* map[key] is truthy: an own property (always an object or a positive
\* count here), or a member found on the prototype chain.
Truthy(map, key) == HasOwn(map, key) \/ key \in ProtoKeys

\* map[key] = val, for a key that is no own property yet (and is not the
\* __proto__ accessor)
Define(map, key, val) == Append(map, [key |-> key, val |-> val])

\* map[key], for an own property
Get(map, key) == map[CHOOSE i \in 1..Len(map) : map[i].key = key].val

\* map[key].field += ..., leaving val as the value of the own property key
Modify(map, key, val) ==
    [i \in 1..Len(map) |->
        IF map[i].key = key THEN [key |-> key, val |-> val] ELSE map[i]]

\* Insertion of one property into a list ordered by ascending array index.
RECURSIVE InsertByIndex(_, _)
InsertByIndex(sorted, e) ==
    IF sorted = <<>> THEN <<e>>
    ELSE IF ArrayIndex(e.key) < ArrayIndex(Head(sorted).key)
         THEN <<e>> \o sorted
         ELSE <<Head(sorted)>> \o InsertByIndex(Tail(sorted), e)

RECURSIVE SortByIndex(_)
SortByIndex(s) ==
    IF s = <<>> THEN <<>>
    ELSE InsertByIndex(SortByIndex(Tail(s)), Head(s))

\* Object.entries(map) / Object.values(map): own properties, array-index keys
\* first in ascending order, then the other keys in creation order.
ObjectEntries(map) ==
    LET IsIndex(e) == ArrayIndex(e.key) >= 0
        IsName(e) == ArrayIndex(e.key) < 0
    IN  SortByIndex(SelectSeq(map, IsIndex)) \o SelectSeq(map, IsName)

-----------------------------------------------------------------------------
(* Array.prototype.sort((a, b) => b.earnings - a.earnings): stable *)

\* e goes behind every element that does not earn less than it.
RECURSIVE InsertByEarnings(_, _)
InsertByEarnings(sorted, e) ==
    IF sorted = <<>> THEN <<e>>
    ELSE IF Head(sorted).earnings >= e.earnings
         THEN <<Head(sorted)>> \o InsertByEarnings(Tail(sorted), e)
         ELSE <<e>> \o sorted

RECURSIVE SortByEarnings(_)
SortByEarnings(s) ==
    IF s = <<>> THEN <<>>
    ELSE InsertByEarnings(SortByEarnings(SubSeq(s, 1, Len(s) - 1)), s[Len(s)])

\* list.slice(0, n)
Slice(s, n) == SubSeq(s, 1, IF Len(s) < n THEN Len(s) ELSE n)

-----------------------------------------------------------------------------
(* Monthly Series *)

\* A series whose buckets are not created ahead of the records
InitMonthsLazy(map, clock, i) == map

\* for (let i = 11; i >= 0; i--) monthlyMap[key(now.month - i)] = { zeros }
RECURSIVE InitMonths(_, _, _)
InitMonths(map, clock, i) ==
    IF i < 0 THEN map
    ELSE LET key == MonthLabel(NewDate(clock.y, clock.m - i, 1))
             bucket == [month |-> key, earnings |-> 0, submissions |-> 0, accepted |-> 0]
             next == IF HasOwn(map, key)
                     THEN Modify(map, key, bucket)
                     ELSE Define(map, key, bucket)
         IN  InitMonths(next, clock, i - 1)

\* The month a record is counted under.
BucketKey(bug) == MonthLabel(bug.created_at)

\* The body of bugs.forEach in calculateMonthlyData.  A month label is no
\* member of Object.prototype, so monthlyMap[key] is truthy exactly for a
\* bucket the loop created.
MonthlyStep(map, bug) ==
    LET key == BucketKey(bug)
        Add(old) ==
            [month |-> old.month,
             earnings |-> old.earnings + BountyOrZero(bug),
             submissions |-> old.submissions + 1,
             accepted |-> old.accepted
                          + (IF bug.status \in acceptedStatuses THEN 1 ELSE 0)]
    IN  IF HasOwn(map, key) THEN Modify(map, key, Add(Get(map, key))) ELSE map

RECURSIVE MonthlyFold(_, _)
MonthlyFold(map, list) ==
    IF list = <<>> THEN map
    ELSE MonthlyFold(MonthlyStep(map, Head(list)), Tail(list))

\* A loop that starts one month earlier
MonthsBackTwelve == 11 + 1

\* The number of buckets the loop creates, less one (its first i).
MonthsBack == 11

calculateMonthlyData(list, clock) ==
    LET monthlyMap == MonthlyFold(InitMonths(<<>>, clock, MonthsBack), list)
    IN  \* Object.values: no label is an array index, so creation order
        [i \in 1..Len(monthlyMap) |-> monthlyMap[i].val]

-----------------------------------------------------------------------------
(* Category Distributions *)

SEVERITY_COLORS(name) ==
    CASE name = "Critical" -> "#ef4444"
      [] name = "High" -> "#f97316"
      [] name = "Medium" -> "#eab308"
      [] name = "Low" -> "#22c55e"
      [] name = "Informational" -> "#3b82f6"
      [] OTHER -> "#6b7280"

STATUS_COLORS(name) ==
    CASE name = "Draft" -> "#6b7280"
      [] name = "Submitted" -> "#eab308"
      [] name = "Triaged" -> "#3b82f6"
      [] name = "Accepted" -> "#22c55e"
      [] name = "Duplicate" -> "#a855f7"
      [] name = "Not Applicable" -> "#ef4444"
      [] name = "Resolved" -> "#10b981"
      [] name = "Bounty Awarded" -> "#14b8a6"
      [] OTHER -> "#6b7280"

\* A count that stays at 1 for a value seen again
CountStepOnce(counts, key) ==
    IF HasOwn(counts, key) THEN counts ELSE Define(counts, key, 1)

\* counts[key] = (counts[key] || 0) + 1, for the values of a database enum
CountStep(counts, key) ==
    LET Inc(old) == old + 1
    IN  IF HasOwn(counts, key) THEN Modify(counts, key, Inc(Get(counts, key)))
        ELSE Define(counts, key, 1)

RECURSIVE SeverityFold(_, _)
SeverityFold(counts, list) ==
    IF list = <<>> THEN counts
    ELSE SeverityFold(CountStep(counts, Head(list).severity), Tail(list))

calculateSeverityData(list) ==
    LET entries == ObjectEntries(SeverityFold(<<>>, list))
    IN  [i \in 1..Len(entries) |->
            [name |-> entries[i].key, value |-> entries[i].val,
             color |-> SEVERITY_COLORS(entries[i].key)]]

RECURSIVE StatusFold(_, _)
StatusFold(counts, list) ==
    IF list = <<>> THEN counts
    ELSE StatusFold(CountStep(counts, Head(list).status), Tail(list))

calculateStatusData(list) ==
    LET entries == ObjectEntries(StatusFold(<<>>, list))
    IN  [i \in 1..Len(entries) |->
            [name |-> entries[i].key, value |-> entries[i].val,
             color |-> STATUS_COLORS(entries[i].key)]]

-----------------------------------------------------------------------------
(* Platform Rollup and Program Leaderboard *)

\* value || 'Unknown', for a nullable string
OrUnknown(o) == IF IsNull(o) \/ Val(o) = "" THEN "Unknown" ELSE Val(o)

\* bug.programs?.platforms?.name || 'Unknown'
PlatformName(bug) ==
    IF IsNull(bug.programs) THEN "Unknown"
    ELSE IF IsNull(Val(bug.programs).platforms) THEN "Unknown"
    ELSE OrUnknown(Some(Val(Val(bug.programs).platforms).name))

\* bug.programs?.target_name || 'Unknown'
ProgramName(bug) ==
    IF IsNull(bug.programs) THEN "Unknown"
    ELSE OrUnknown(Some(Val(bug.programs).target_name))

\* bug.programs?.company || 'Unknown'
CompanyName(bug) ==
    IF IsNull(bug.programs) THEN "Unknown"
    ELSE OrUnknown(Val(bug.programs).company)

\* The updates of one group's accumulator for one bug
Accumulate(acc, bug) ==
    [acc EXCEPT
        !.bugs = @ + 1,
        !.earnings = @ + BountyOrZero(bug),
        !.total = @ + (IF bug.status \in resolvedStatuses THEN 1 ELSE 0),
        !.accepted = @ + (IF bug.status \in resolvedStatuses
                             /\ bug.status \in acceptedStatuses THEN 1 ELSE 0)]

\* The body of bugs.forEach in calculatePlatformData and calculateTopPrograms,
\* for the group `name` and the accumulator `fresh` of a new group
GroupStep(map, name, fresh, bug) ==
    LET created == IF ~Truthy(map, name) THEN Define(map, name, fresh) ELSE map
    IN  \* the += updates: on the group, or on the inherited member
        IF HasOwn(created, name)
        THEN Modify(created, name, Accumulate(Get(created, name), bug))
        ELSE created

RECURSIVE PlatformFold(_, _)
PlatformFold(map, list) ==
    IF list = <<>> THEN map
    ELSE PlatformFold(
            GroupStep(map, PlatformName(Head(list)),
                      [bugs |-> 0, earnings |-> 0, accepted |-> 0, total |-> 0],
                      Head(list)),
            Tail(list))

\* data.total > 0 ? Math.round((data.accepted / data.total) * 100) : 0
GroupRate(acc) ==
    IF acc.total > 0 THEN MathRound(acc.accepted * 100, acc.total) ELSE 0

calculatePlatformData(list) ==
    LET entries == ObjectEntries(PlatformFold(<<>>, list))
        data == [i \in 1..Len(entries) |->
                    [name |-> entries[i].key,
                     bugs |-> entries[i].val.bugs,
                     earnings |-> entries[i].val.earnings,
                     successRate |-> GroupRate(entries[i].val)]]
    IN  SortByEarnings(data)

RECURSIVE ProgramFold(_, _)
ProgramFold(map, list) ==
    IF list = <<>> THEN map
    ELSE ProgramFold(
            GroupStep(map, ProgramName(Head(list)),
                      [company |-> CompanyName(Head(list)),
                       bugs |-> 0, earnings |-> 0, accepted |-> 0, total |-> 0],
                      Head(list)),
            Tail(list))

\* The leaderboard's length: .slice(0, 5)
TopN == 5

calculateTopPrograms(list) ==
    LET entries == ObjectEntries(ProgramFold(<<>>, list))
        data == [i \in 1..Len(entries) |->
                    [name |-> entries[i].key,
                     company |-> entries[i].val.company,
                     bugs |-> entries[i].val.bugs,
                     earnings |-> entries[i].val.earnings,
                     successRate |-> GroupRate(entries[i].val)]]
    IN  Slice(SortByEarnings(data), TopN)

-----------------------------------------------------------------------------
(* Average Bounty by Severity (computed while rendering) *)

\* ['Critical', 'High', 'Medium', 'Low', 'Informational']
PanelSeverities == <<"Critical", "High", "Medium", "Low", "Informational">>

\* A panel that reads the filtered collection
PanelFromFiltered(allBugs, filtered) == filtered

\* The collection the panel reads: the state variable bugs.
PanelBugs(allBugs, filtered) == allBugs

\* One tile of the panel: avgAmount and count for one severity
SeverityTile(list, severity) ==
    LET OfSeverity(b) == b.severity = severity
        Paid(b) == b.severity = severity /\ HasBounty(b)
        severityBugs == SelectSeq(list, Paid)
    IN  [severity |-> severity,
         avgAmount |->
            IF Len(severityBugs) > 0
            THEN Frac(SumBounty(severityBugs), Len(severityBugs)) ELSE Zero,
         count |-> Len(SelectSeq(list, OfSeverity))]

\* The five tiles the component renders from its state
SeverityPanel(allBugs, filtered) ==
    [i \in 1..Len(PanelSeverities) |->
        SeverityTile(PanelBugs(allBugs, filtered), PanelSeverities[i])]

-----------------------------------------------------------------------------
(* The run of the engine: fetchAnalyticsData after a successful fetch *)

\* The toast of both failure paths (if (error) and catch)
FailureToast ==
    Some([title |-> "Error", description |-> "Failed to fetch analytics data",
          variant |-> "destructive"])

\* setBugs(allBugs), the filter for the window `range` and the six passes
Recompute(allBugs, range) ==
    LET filtered == filterBugsByTimeRange(allBugs, range, now)
    IN  /\ bugs' = allBugs
        /\ filteredBugs' = filtered
        /\ stats' = calculateStats(filtered, allBugs, now)
        /\ monthlyData' = calculateMonthlyData(filtered, now)
        /\ severityData' = calculateSeverityData(filtered)
        /\ statusData' = calculateStatusData(filtered)
        /\ platformData' = calculatePlatformData(filtered)
        /\ topPrograms' = calculateTopPrograms(filtered)

\* The selector's tokens (SelectItem value=...)
TimeRanges == {"all", "year", "6months", "month"}

\* One run of fetchAnalyticsData to its end, with a fetch that succeeds: the
\* run the mount starts (loading, for the window selected then), or the run
\* that a change of the selector to `range` starts (useEffect on timeRange):
\* setLoading(true); const allBugs = bugsData || []; setBugs(allBugs); the
\* filter; the six passes; finally setLoading(false).  The run's steps are
\* taken together here, so no run is left pending and no toast is shown.
Analyze(range) ==
    /\ IF loading THEN range = timeRange ELSE range # timeRange
    /\ inflight = <<>>
    /\ timeRange' = range
    /\ loading' = FALSE
    /\ Recompute(db, range)
    /\ outcome' = "ok"
    /\ newest' = "ok"
    /\ UNCHANGED <<others, now, db, inflight, toast>>

\* The component's state before its first fetch returns (the useState defaults)
Mounted ==
    /\ timeRange = "all"
    /\ loading = TRUE
    /\ bugs = <<>>
    /\ filteredBugs = <<>>
    /\ stats = InitialStats
    /\ monthlyData = <<>>
    /\ severityData = <<>>
    /\ statusData = <<>>
    /\ platformData = <<>>
    /\ topPrograms = <<>>
    /\ inflight = <<>>
    /\ toast = Null
    /\ outcome = "none"
    /\ newest = "none"

\* The modal of the bug reports page before it is opened (useState defaults)
ModalClosed ==
    /\ editingReport = Null
    /\ isModalOpen = FALSE
    /\ collaborators = <<>>

\* No call of toggleChecklistItem made yet
NoToggles ==
    /\ toggles = <<>>
    /\ calls = [made |-> 0, written |-> 0]

\* The state of the other pages before anything is fetched or clicked there
\* (their useState defaults, and an item that is not completed)
Elsewhere ==
    /\ heap = <<>>
    /\ reports = <<>>
    /\ ModalClosed
    /\ checklists = FALSE
    /\ is_completed = FALSE
    /\ NoToggles

Next == \E range \in TimeRanges : Analyze(range)

-----------------------------------------------------------------------------
(* The runs of fetchAnalyticsData, step by step *)

\* The most runs pending at once
MaxInflight == 2

aggregates ==
    <<bugs, filteredBugs, stats, monthlyData, severityData, statusData,
      platformData, topPrograms>>

\* s without its i-th element
Remove(s, i) == SubSeq(s, 1, i - 1) \o SubSeq(s, i + 1, Len(s))

\* A selector value used by the closure in place of the one it captured
LatestRange(run) == timeRange

\* The timeRange a run reads: the one of the render whose effect started it
CapturedRange(run) == run.range

\* A failure toast that is never shown
NoToast == Null

\* toast({ title: "Error", ... }) on a failure path
ShownOnFailure == FailureToast

\* fetchAnalyticsData up to its first await: setLoading(true), then the call
\* of supabase.auth.getUser()
StartRun(range) ==
    /\ Len(inflight) < MaxInflight
    /\ loading' = TRUE
    /\ inflight' = Append(inflight, [range |-> range, at |-> "getUser"])
    /\ newest' = "pending"

\* finally { setLoading(false) } of the run i, which ends as `how`
EndRun(i, how) ==
    /\ inflight' = Remove(inflight, i)
    /\ loading' = FALSE
    /\ outcome' = how
    /\ newest' = IF newest = "pending" /\ i = Len(inflight) THEN how ELSE newest

\* useEffect(() => { fetchAnalyticsData() }, [timeRange]) at the mount
MountEffect ==
    /\ loading
    /\ inflight = <<>>
    /\ outcome = "none"
    /\ StartRun(timeRange)
    /\ UNCHANGED <<others, now, db, timeRange, aggregates, toast, outcome>>

\* onValueChange of the Select, then the effect of the changed timeRange
SelectValue(range) ==
    /\ range # timeRange
    /\ timeRange' = range
    /\ StartRun(range)
    /\ UNCHANGED <<others, now, db, aggregates, toast, outcome>>

\* The Select is rendered once loading is false (if (loading) return ...)
SetTimeRange(range) == ~loading /\ SelectValue(range)

\* A change of the selector that reaches the component while a run is
\* pending: the effect only queues setLoading(true), and the Select stays
\* mounted until the render of the loading placeholder is committed.
SetTimeRangeEarly(range) == loading /\ inflight # <<>> /\ SelectValue(range)

\* getUser() resolves with a user: the run goes on to the bugs query
GetUserReturns(i) ==
    /\ inflight[i].at = "getUser"
    /\ inflight' = [inflight EXCEPT ![i].at = "query"]
    /\ UNCHANGED <<others, now, db, timeRange, loading, aggregates, toast,
                   outcome, newest>>

\* if (!user) return
NoUser(i) ==
    /\ inflight[i].at = "getUser"
    /\ EndRun(i, "nouser")
    /\ UNCHANGED <<others, now, db, timeRange, aggregates, toast>>

\* Either await rejects: catch (error) { toast(...) }
Throws(i) ==
    /\ toast' = ShownOnFailure
    /\ EndRun(i, "thrown")
    /\ UNCHANGED <<others, now, db, timeRange, aggregates>>

\* The query resolves with an error: if (error) { toast(...); return }
QueryError(i) ==
    /\ inflight[i].at = "query"
    /\ toast' = ShownOnFailure
    /\ EndRun(i, "error")
    /\ UNCHANGED <<others, now, db, timeRange, aggregates>>

\* The query resolves with data (the rows, or null): allBugs = bugsData || []
QueryData(i, bugsData) ==
    /\ inflight[i].at = "query"
    /\ Recompute(IF IsNull(bugsData) THEN <<>> ELSE Val(bugsData),
                 CapturedRange(inflight[i]))
    /\ EndRun(i, "ok")
    /\ UNCHANGED <<others, now, db, timeRange, toast>>

Runs == 1..Len(inflight)

\* The view whose selector is gated by loading
NextView ==
    \/ MountEffect
    \/ \E range \in TimeRanges : SetTimeRange(range)
    \/ \E i \in Runs : GetUserReturns(i)
    \/ \E i \in Runs : NoUser(i)
    \/ \E i \in Runs : Throws(i)
    \/ \E i \in Runs : QueryError(i)
    \/ \E i \in Runs : \E bugsData \in {Null, Some(db)} : QueryData(i, bugsData)

\* The view with selector changes that arrive before the placeholder
NextOverlap ==
    \/ MountEffect
    \/ \E range \in TimeRanges : SetTimeRange(range)
    \/ \E range \in TimeRanges : SetTimeRangeEarly(range)
    \/ \E i \in Runs : GetUserReturns(i)
    \/ \E i \in Runs : NoUser(i)
    \/ \E i \in Runs : Throws(i)
    \/ \E i \in Runs : QueryError(i)
    \/ \E i \in Runs : \E bugsData \in {Null, Some(db)} : QueryData(i, bugsData)

-----------------------------------------------------------------------------
(* The six passes of one run, one at a time *)

Passes == {"stats", "monthly", "severity", "status", "platform", "programs"}

\* An array that a pass leaves in reverse order
ReceiverReversed(list) == [i \in 1..Len(list) |-> list[Len(list) + 1 - i]]

\* The array a pass is given, as the pass leaves it: the passes call filter,
\* reduce and forEach on it, with callbacks that read their element, and
\* sort and slice only the arrays they build themselves.
ReceiverAfterRead(list) == list

\* fetchAnalyticsData from its start to the filter, with a fetch that
\* succeeds: setBugs(allBugs) and filterBugsByTimeRange(allBugs, timeRange)
BeginPasses(range) ==
    /\ IF loading /\ inflight = <<>> THEN range = timeRange
       ELSE ~loading /\ range # timeRange
    /\ inflight = <<>>
    /\ timeRange' = range
    /\ loading' = TRUE
    /\ bugs' = db
    /\ filteredBugs' = filterBugsByTimeRange(db, range, now)
    /\ inflight' = <<[range |-> range, at |-> "passes", todo |-> Passes]>>
    /\ newest' = "pending"
    /\ UNCHANGED <<others, now, db, stats, monthlyData, severityData, statusData,
                   platformData, topPrograms, toast, outcome>>

\* The pass p of the pending run is taken: it leaves the filtered array, and
\* allBugs, which is the same array when the filter took its default branch
TakePass(p) ==
    /\ inflight # <<>>
    /\ inflight[1].at = "passes"
    /\ p \in inflight[1].todo
    /\ inflight' = [inflight EXCEPT ![1].todo = @ \ {p}]
    /\ filteredBugs' = ReceiverAfterRead(filteredBugs)
    /\ bugs' = IF IsNull(StartDate(inflight[1].range, now))
               THEN ReceiverAfterRead(filteredBugs) ELSE bugs
    /\ UNCHANGED <<others, now, db, timeRange, loading, toast, outcome, newest>>

PassStats ==
    /\ TakePass("stats")
    /\ stats' = calculateStats(filteredBugs, bugs, now)
    /\ UNCHANGED <<monthlyData, severityData, statusData, platformData, topPrograms>>

PassMonthly ==
    /\ TakePass("monthly")
    /\ monthlyData' = calculateMonthlyData(filteredBugs, now)
    /\ UNCHANGED <<stats, severityData, statusData, platformData, topPrograms>>

PassSeverity ==
    /\ TakePass("severity")
    /\ severityData' = calculateSeverityData(filteredBugs)
    /\ UNCHANGED <<stats, monthlyData, statusData, platformData, topPrograms>>

PassStatus ==
    /\ TakePass("status")
    /\ statusData' = calculateStatusData(filteredBugs)
    /\ UNCHANGED <<stats, monthlyData, severityData, platformData, topPrograms>>

PassPlatform ==
    /\ TakePass("platform")
    /\ platformData' = calculatePlatformData(filteredBugs)
    /\ UNCHANGED <<stats, monthlyData, severityData, statusData, topPrograms>>

PassPrograms ==
    /\ TakePass("programs")
    /\ topPrograms' = calculateTopPrograms(filteredBugs)
    /\ UNCHANGED <<stats, monthlyData, severityData, statusData, platformData>>

\* finally { setLoading(false) } after the last pass
EndPasses ==
    /\ inflight # <<>>
    /\ inflight[1].at = "passes"
    /\ inflight[1].todo = {}
    /\ inflight' = <<>>
    /\ loading' = FALSE
    /\ outcome' = "ok"
    /\ newest' = "ok"
    /\ UNCHANGED <<others, now, db, timeRange, aggregates, toast>>

\* The passes of a run in every order
NextPasses ==
    \/ \E range \in TimeRanges : BeginPasses(range)
    \/ PassStats
    \/ PassMonthly
    \/ PassSeverity
    \/ PassStatus
    \/ PassPlatform
    \/ PassPrograms
    \/ EndPasses

-----------------------------------------------------------------------------
(* The bug reports page and BugReportModal: the collaborators of a report *)

\* The most collaborator objects in memory
MaxObjects == 2

\* The state of AnalyticsView, which the other pages leave alone
view ==
    <<now, timeRange, loading, aggregates, inflight, toast, outcome, newest>>

\* bug.collaborators || []
CollaboratorsOrEmpty(row) ==
    IF IsNull(row.collaborators) THEN <<>> ELSE Val(row.collaborators)

\* formattedReports of fetchBugReports: each report refers to the array of
\* collaborator objects of its row; mem is the memory allocated so far
RECURSIVE FormatReports(_, _)
FormatReports(rows, mem) ==
    IF rows = <<>> THEN [heap |-> mem, reports |-> <<>>]
    ELSE LET list == CollaboratorsOrEmpty(Head(rows))
             refs == [i \in 1..Len(list) |-> Len(mem) + i]
             rest == FormatReports(Tail(rows), mem \o list)
         IN  [heap |-> rest.heap,
              reports |-> <<[collaborators |-> refs]>> \o rest.reports]

\* collaborators.reduce((sum, c) => sum + (c.percentage || 0), 0)
RECURSIVE totalCollabPercentage(_, _)
totalCollabPercentage(refs, mem) ==
    IF refs = <<>> THEN 0
    ELSE mem[Head(refs)].percentage + totalCollabPercentage(Tail(refs), mem)

\* Math.min(100, Math.max(0, Number(value)))
ClampPercentage(value) ==
    IF value < 0 THEN 0 ELSE IF value > 100 THEN 100 ELSE value

\* handleEditReport(report), and the modal's effect on [isOpen,
\* editingReport]: setCollaborators(editingReport.collaborators || [])
handleEditReport(r) ==
    /\ ~isModalOpen
    /\ editingReport' = Some(r)
    /\ isModalOpen' = TRUE
    /\ collaborators' = reports[r].collaborators
    /\ UNCHANGED <<view, db, heap, reports, checklistVars>>

\* The button of a new report: setIsModalOpen(true), and the modal's effect
\* on [isOpen]: if (!editingReport) setCollaborators([])
NewReport ==
    /\ ~isModalOpen
    /\ isModalOpen' = TRUE
    /\ collaborators' = IF IsNull(editingReport) THEN <<>> ELSE collaborators
    /\ UNCHANGED <<view, db, heap, reports, editingReport, checklistVars>>

\* if (totalCollabPercentage < 100)
\*     setCollaborators([...collaborators, { name: '', percentage: 0 }])
addCollaborator ==
    /\ isModalOpen
    /\ Len(heap) < MaxObjects
    /\ totalCollabPercentage(collaborators, heap) < 100
    /\ heap' = Append(heap, [name |-> "", percentage |-> 0])
    /\ collaborators' = Append(collaborators, Len(heap) + 1)
    /\ UNCHANGED <<view, db, reports, editingReport, isModalOpen, checklistVars>>

\* setCollaborators(collaborators.filter((_, i) => i !== index))
removeCollaborator(index) ==
    /\ isModalOpen
    /\ index \in 1..Len(collaborators)
    /\ collaborators' = Remove(collaborators, index)
    /\ UNCHANGED <<view, db, heap, reports, editingReport, isModalOpen,
                   checklistVars>>

\* const updated = [...collaborators]; updated[index][field] = ...;
\* setCollaborators(updated): the array is new, its elements are the objects
\* of the old one, and the assignment writes to the object
updateCollaborator(index, field, value) ==
    /\ isModalOpen
    /\ index \in 1..Len(collaborators)
    /\ heap' = [heap EXCEPT ![collaborators[index]] =
                    IF field = "percentage"
                    THEN [@ EXCEPT !.percentage = ClampPercentage(value)]
                    ELSE [@ EXCEPT !.name = value]]
    /\ collaborators' = collaborators
    /\ UNCHANGED <<view, db, reports, editingReport, isModalOpen, checklistVars>>

\* handleCloseModal (Cancel, and onOpenChange of the Dialog)
handleCloseModal ==
    /\ isModalOpen
    /\ isModalOpen' = FALSE
    /\ editingReport' = Null
    /\ UNCHANGED <<view, db, heap, reports, collaborators, checklistVars>>

\* The values typed into the name field and into the percentage field
TypedNames == {"eve"}
TypedPercentages == {0 - 5, 150}

\* The page with its modal, without a save
NextModal ==
    \/ \E r \in 1..Len(reports) : handleEditReport(r)
    \/ NewReport
    \/ addCollaborator
    \/ \E index \in 1..MaxObjects : removeCollaborator(index)
    \/ \E index \in 1..MaxObjects : \E value \in TypedNames :
            updateCollaborator(index, "name", value)
    \/ \E index \in 1..MaxObjects : \E value \in TypedPercentages :
            updateCollaborator(index, "percentage", value)
    \/ handleCloseModal

-----------------------------------------------------------------------------
(* Index: toggleChecklistItem on one item of one checklist *)

\* The most calls pending at once, and the most calls made
MaxToggles == 2
MaxCalls == 3

\* completed: item.is_completed || false
CompletedOrFalse(row) ==
    IF IsNull(row.is_completed) THEN FALSE ELSE Val(row.is_completed)

\* toggleChecklistItem up to its first await: the item is found in the
\* checklists of the render that made the handler, newCompletedState =
\* !item.completed, then the call of supabase.auth.getUser()
ToggleStart ==
    /\ Len(toggles) < MaxToggles
    /\ calls.made < MaxCalls
    /\ toggles' = Append(toggles, [newCompletedState |-> ~checklists,
                                   at |-> "getUser"])
    /\ calls' = [calls EXCEPT !.made = @ + 1]
    /\ UNCHANGED <<view, db, modalVars, checklists, is_completed>>

\* getUser() resolves with a user: the call goes on to the update
ToggleUser(i) ==
    /\ toggles[i].at = "getUser"
    /\ toggles' = [toggles EXCEPT ![i].at = "update"]
    /\ UNCHANGED <<view, db, modalVars, checklists, is_completed, calls>>

\* setChecklists(prev => ... completed: newCompletedState ...), the last
\* statement of the call i
ToggleEnd(i) ==
    /\ checklists' = toggles[i].newCompletedState
    /\ toggles' = Remove(toggles, i)

\* getUser() resolves without a user: the update is skipped
ToggleNoUser(i) ==
    /\ toggles[i].at = "getUser"
    /\ ToggleEnd(i)
    /\ UNCHANGED <<view, db, modalVars, is_completed, calls>>

\* update({ is_completed: newCompletedState }).eq('id', itemId) succeeds
ToggleUpdated(i) ==
    /\ toggles[i].at = "update"
    /\ is_completed' = toggles[i].newCompletedState
    /\ calls' = [calls EXCEPT !.written = @ + 1]
    /\ ToggleEnd(i)
    /\ UNCHANGED <<view, db, modalVars>>

\* The update resolves with an error: if (error) { console.error(...) }
ToggleUpdateError(i) ==
    /\ toggles[i].at = "update"
    /\ ToggleEnd(i)
    /\ UNCHANGED <<view, db, modalVars, is_completed, calls>>

\* Either await rejects: catch (error) { console.error(...) }
ToggleThrows(i) ==
    /\ toggles' = Remove(toggles, i)
    /\ UNCHANGED <<view, db, modalVars, checklists, is_completed, calls>>

Toggles == 1..Len(toggles)

\* The clicks on the item and the returns of the calls
NextToggle ==
    \/ ToggleStart
    \/ \E i \in Toggles : ToggleUser(i)
    \/ \E i \in Toggles : ToggleNoUser(i)
    \/ \E i \in Toggles : ToggleUpdated(i)
    \/ \E i \in Toggles : ToggleUpdateError(i)
    \/ \E i \in Toggles : ToggleThrows(i)

-----------------------------------------------------------------------------
(* Inputs *)

\* Every sequence over S of length at most n
SeqsUpTo(S, n) == UNION {[1..k -> S] : k \in 0..n}

Bug(severity, status, bounty, created, submitted, resolved, program) ==
    [severity |-> severity, status |-> status, bounty_amount |-> bounty,
     created_at |-> created, submission_date |-> submitted,
     resolution_date |-> resolved, programs |-> program]

Program(target, company, platform) ==
    Some([target_name |-> target, company |-> company, platforms |-> platform])

Platform(name) == Some([name |-> name])

(* Inputs that vary the dates: the clock, and records created on the first *)
(* day of a month at midnight and on its last day at midnight and later.   *)

MaxTimeBugs == 2

Clocks ==
    {[y |-> 2024, m |-> 2, d |-> 15, t |-> 1],
     [y |-> 2024, m |-> 0, d |-> 1, t |-> 0]}

CreatedAt ==
    {[y |-> y, m |-> m, d |-> 1, t |-> 0] :
        y \in {2023, 2024}, m \in {0, 1, 2, 6, 8, 11}}
    \cup
    {[y |-> y, m |-> m, d |-> DaysInMonth(y, m), t |-> t] :
        y \in {2023, 2024}, m \in {0, 1, 2, 6, 8, 11}, t \in {0, 1}}
    \cup
    {[y |-> 2022, m |-> 11, d |-> 31, t |-> 1]}

TimeBugs ==
    {Bug("High", status, bounty, created, Null, Null, Null) :
        status \in {"Resolved", "Draft"}, bounty \in {Null, Some(100)},
        created \in CreatedAt}

InitTime ==
    /\ now \in Clocks
    /\ db \in SeqsUpTo(TimeBugs, MaxTimeBugs)
    /\ Mounted
    /\ Elsewhere

SpecTime == InitTime /\ [][Next]_vars

(* Inputs that vary the status and the linked program and platform, all    *)
(* created in the current month: records of every class of status without  *)
(* a bounty, and accepted records with one.                                *)

MaxBugs == 3

Today == [y |-> 2024, m |-> 2, d |-> 15, t |-> 1]

Programs ==
    {Null,
     Program("acme", Some("Acme Corp"), Platform("HackerOne")),
     Program("acme", Some("Acme Corp"), Platform("")),
     Program("globex", Null, Null),
     Program("initech", Some("Initech"), Platform("constructor"))}

GroupBugs ==
    {Bug("High", status, Null, [Today EXCEPT !.d = 10], Null, Null, program) :
        status \in {"Resolved", "Duplicate", "Triaged", "Informative"},
        program \in Programs}
    \cup
    {Bug("High", "Resolved", Some(100), [Today EXCEPT !.d = 10], Null, Null, program) :
        program \in Programs}

InitGroup ==
    /\ now = Today
    /\ db \in SeqsUpTo(GroupBugs, MaxBugs)
    /\ Mounted
    /\ Elsewhere

SpecGroup == InitGroup /\ [][Next]_vars

(* Inputs with more programs than the leaderboard holds: the i-th record   *)
(* belongs to the i-th program name or to the first one.                   *)

MaxTopBugs == 6

TopNames == <<"acme", "globex", "constructor", "7", "initech", "hooli", "umbrella">>

TopChoices == {TRUE, FALSE} \X {Some(100), Some(200)}

TopBug(i, choice) ==
    Bug("High", "Resolved", choice[2], [Today EXCEPT !.d = 10], Null, Null,
        Program(IF choice[1] THEN TopNames[i] ELSE TopNames[1], Null, Null))

InitTop ==
    /\ now = Today
    /\ \E k \in 0..MaxTopBugs :
        \E choice \in [1..k -> TopChoices] :
            db = [i \in 1..k |-> TopBug(i, choice[i])]
    /\ Mounted
    /\ Elsewhere

SpecTop == InitTop /\ [][Next]_vars

(* Inputs that vary the severity and the status, with and without a known  *)
(* display color (the statuses New and Informative have none).             *)

MaxDistBugs == 3

DistBugs ==
    {Bug(severity, status, Null, created, Null, Null, Null) :
        severity \in {"Critical", "Low"},
        status \in {"New", "Resolved", "Informative"},
        created \in {[Today EXCEPT !.d = 10], [Today EXCEPT !.y = 2023]}}

InitDist ==
    /\ now = Today
    /\ db \in SeqsUpTo(DistBugs, MaxDistBugs)
    /\ Mounted
    /\ Elsewhere

SpecDist == InitDist /\ [][Next]_vars

(* Inputs that vary the order of the groups: two programs of one name with *)
(* different companies, and program and platform names that are strings of *)
(* digits.                                                                 *)

MaxOrderBugs == 3

OrderPrograms ==
    {Program("acme", Some("Acme Corp"), Platform("HackerOne")),
     Program("acme", Some("Acme Labs"), Platform("7")),
     Program("42", Null, Platform("Bugcrowd")),
     Program("globex", Some("Globex"), Platform("HackerOne"))}

OrderBugs ==
    {Bug("High", "Resolved", bounty, [Today EXCEPT !.d = 10], Null, Null, program) :
        bounty \in {Null, Some(100)}, program \in OrderPrograms}

InitOrder ==
    /\ now = Today
    /\ db \in SeqsUpTo(OrderBugs, MaxOrderBugs)
    /\ Mounted
    /\ Elsewhere

SpecOrder == InitOrder /\ [][Next]_vars

(* Inputs that vary the bounty (null, zero, positive) and the two dates    *)
(* (either missing, resolved later, resolved earlier than submitted);      *)
(* dates are day numbers.                                                  *)

MaxAvgBugs == 3

AvgDates ==
    {<<Null, Null>>, <<Some(3), Null>>, <<Null, Some(5)>>,
     <<Some(3), Some(5)>>, <<Some(10), Some(3)>>}

AvgBugs ==
    {Bug("High", "Resolved", bounty, [Today EXCEPT !.d = 10],
         dates[1], dates[2], Null) :
        bounty \in {Null, Some(0), Some(100)}, dates \in AvgDates}
    \cup
    {Bug("High", "Resolved", Some(100), [Today EXCEPT !.y = 2023],
         Some(3), Some(5), Null)}

InitAvg ==
    /\ now = Today
    /\ db \in SeqsUpTo(AvgBugs, MaxAvgBugs)
    /\ Mounted
    /\ Elsewhere

SpecAvg == InitAvg /\ [][Next]_vars

(* Inputs for the panel of severities: two of its severities, with and     *)
(* without a bounty, of this month and of 2023                             *)

MaxPanelBugs == 3

PanelInputs ==
    {Bug(severity, "Resolved", bounty, created, Null, Null, Null) :
        severity \in {"Critical", "Low"},
        bounty \in {Null, Some(100), Some(250)},
        created \in {[Today EXCEPT !.d = 10], [Today EXCEPT !.y = 2023]}}

InitPanel ==
    /\ now = Today
    /\ db \in SeqsUpTo(PanelInputs, MaxPanelBugs)
    /\ Mounted
    /\ Elsewhere

SpecPanel == InitPanel /\ [][Next]_vars

(* Inputs for the bug reports page: rows with and without collaborators    *)

MaxReports == 1

ReportRows ==
    {[collaborators |-> list] :
        list \in {Null, Some(<<[name |-> "ann", percentage |-> 50]>>)}}

\* The page after fetchBugReports has set reports, the modal closed
InitModal ==
    /\ now = Today
    /\ Mounted
    /\ db \in SeqsUpTo(ReportRows, MaxReports)
    /\ heap = FormatReports(db, <<>>).heap
    /\ reports = FormatReports(db, <<>>).reports
    /\ ModalClosed
    /\ checklists = FALSE
    /\ is_completed = FALSE
    /\ NoToggles

SpecModal == InitModal /\ [][NextModal]_vars

(* Inputs for the checklist: the item's row as the page fetched it         *)

ItemRows ==
    {[is_completed |-> flag] : flag \in {Null, Some(FALSE), Some(TRUE)}}

\* Index after its checklists are fetched: db is the one item's row
InitToggle ==
    /\ now = Today
    /\ Mounted
    /\ db \in [1..1 -> ItemRows]
    /\ heap = <<>>
    /\ reports = <<>>
    /\ ModalClosed
    /\ checklists = CompletedOrFalse(db[1])
    /\ is_completed = CompletedOrFalse(db[1])
    /\ NoToggles

SpecToggle == InitToggle /\ [][NextToggle]_vars

(* Inputs for the passes, whose outputs depend on the order of the records *)
(* (two of the programs tie) and on the window.                            *)

MaxPassBugs == 2

PassBugs ==
    {Bug("High", "Resolved", Null, [Today EXCEPT !.d = 10], Null, Null,
         Program("acme", Some("Acme Corp"), Platform("HackerOne"))),
     Bug("Low", "Draft", Null, [Today EXCEPT !.d = 10], Null, Null,
         Program("globex", Null, Null)),
     Bug("High", "Duplicate", Some(100), [Today EXCEPT !.y = 2023], Some(3), Some(5),
         Program("acme", Some("Acme Labs"), Platform("HackerOne")))}

InitPasses ==
    /\ now = Today
    /\ db \in SeqsUpTo(PassBugs, MaxPassBugs)
    /\ Mounted
    /\ Elsewhere

SpecPasses == InitPasses /\ [][NextPasses]_vars

(* Inputs for the runs: records of this month and of last year *)

MaxViewBugs == 2

ViewBugs ==
    {Bug("High", "Resolved", Some(100), created, Null, Null, Null) :
        created \in {[Today EXCEPT !.d = 10], [Today EXCEPT !.y = 2023]}}

InitView ==
    /\ now = Today
    /\ db \in SeqsUpTo(ViewBugs, MaxViewBugs)
    /\ Mounted
    /\ Elsewhere

SpecView == InitView /\ [][NextView]_vars

SpecOverlap == InitView /\ [][NextOverlap]_vars

-----------------------------------------------------------------------------
(* Properties.  Each is stated from the records and the outputs alone,     *)
(* without the operators of the pass it is about.                          *)

\* The engine has run: the first fetch has returned.
Ran == loading = FALSE

Idx(s) == 1..Len(s)

AbsMonth(date) == date.y * 12 + date.m

\* a is at or after b, by calendar fields
AtOrAfter(a, b) ==
    \/ a.y > b.y
    \/ a.y = b.y /\ a.m > b.m
    \/ a.y = b.y /\ a.m = b.m /\ a.d > b.d
    \/ a.y = b.y /\ a.m = b.m /\ a.d = b.d /\ a.t >= b.t

\* The j-th smallest element of a set of indices
Nth(I, j) == CHOOSE i \in I : Cardinality({k \in I : k < i}) = j - 1

Amount(bug) == IF bug.bounty_amount = <<>> THEN 0 ELSE bug.bounty_amount[1]

\* The sum of the bounties of the records of s at the indices I, null as 0
RECURSIVE SumAt(_, _)
SumAt(s, I) ==
    IF I = {} THEN 0
    ELSE LET i == CHOOSE i \in I : TRUE
         IN  Amount(s[i]) + SumAt(s, I \ {i})

\* The sum of a field over the entries of an output list
RECURSIVE SumEarnings(_)
SumEarnings(out) ==
    IF out = <<>> THEN 0 ELSE Head(out).earnings + SumEarnings(Tail(out))

RECURSIVE SumBugs(_)
SumBugs(out) ==
    IF out = <<>> THEN 0 ELSE Head(out).bugs + SumBugs(Tail(out))

AcceptedAt(s, I) ==
    Cardinality({i \in I : s[i].status \in {"Accepted", "Resolved", "Bounty Awarded"}})

RejectedAt(s, I) ==
    Cardinality({i \in I : s[i].status \in {"Duplicate", "Not Applicable"}})

PendingAt(s, I) ==
    Cardinality({i \in I : s[i].status \in {"Draft", "Submitted", "Triaged"}})

\* n is the fraction num / den rounded to the nearest integer, halves up
IsNearest(n, num, den) ==
    /\ 2 * (n * den - num) <= den
    /\ 2 * (n * den - num) > 0 - den

\* The rate of a rollup group over the records at I: in 0..100, the rounded
\* percentage of accepted among accepted and rejected, 0 when there is none
IsGroupRate(rate, s, I) ==
    LET a == AcceptedAt(s, I)
        r == RejectedAt(s, I)
    IN  /\ rate \in 0..100
        /\ IF a + r = 0 THEN rate = 0 ELSE IsNearest(rate, 100 * a, a + r)

\* The platform a record is grouped under, as the specification words it
PlatformOf(bug) ==
    IF bug.programs = <<>> THEN "Unknown"
    ELSE IF bug.programs[1].platforms = <<>> THEN "Unknown"
    ELSE IF bug.programs[1].platforms[1].name = "" THEN "Unknown"
    ELSE bug.programs[1].platforms[1].name

\* The program a record is grouped under
ProgramOf(bug) ==
    IF bug.programs = <<>> THEN "Unknown"
    ELSE IF bug.programs[1].target_name = "" THEN "Unknown"
    ELSE bug.programs[1].target_name

-----------------------------------------------------------------------------
\* C1: with selector month, 6months or year the filter returns exactly the
\* records of its input created at or after the window start (month: the
\* first day of the current month at 00:00; 6months: the first day of the
\* month six months before; year: January 1 of the current year), in their
\* input order, for the clock read when it is called.
WindowStartOf(range) ==
    CASE range = "month" -> [y |-> now.y, m |-> now.m, d |-> 1, t |-> 0]
      [] range = "6months" ->
            [y |-> (AbsMonth(now) - 6) \div 12, m |-> (AbsMonth(now) - 6) % 12,
             d |-> 1, t |-> 0]
      [] range = "year" -> [y |-> now.y, m |-> 0, d |-> 1, t |-> 0]

C1_FilterKeepsWindow ==
    (Ran /\ timeRange \in {"month", "6months", "year"}) =>
        LET I == {i \in Idx(bugs) :
                    AtOrAfter(bugs[i].created_at, WindowStartOf(timeRange))}
        IN  /\ bugs = db
            /\ Len(filteredBugs) = Cardinality(I)
            /\ \A j \in Idx(filteredBugs) : filteredBugs[j] = bugs[Nth(I, j)]

\* C1 witness: under 6months, with the clock in January, the first of two
\* records is dropped and the second, created on the window's first instant
\* (July 1 of the year before), is kept.
C1_Witness ==
    /\ Ran /\ timeRange = "6months" /\ now.m = 0
    /\ Len(bugs) = 2 /\ Len(filteredBugs) = 1
    /\ filteredBugs[1] = bugs[2]
    /\ bugs[2].created_at = [y |-> now.y - 1, m |-> 6, d |-> 1, t |-> 0]

-----------------------------------------------------------------------------
\* C4: lastMonthEarnings is the sum of bounty_amount over every unfiltered
\* record created anywhere in the previous calendar month, through the end of
\* its last day, and lastYearEarnings the sum over every record created
\* anywhere in the previous calendar year, through the end of December 31.
C4_LastPeriodsAreWhole ==
    Ran =>
        /\ stats.lastMonthEarnings =
            SumAt(bugs, {i \in Idx(bugs) :
                            AbsMonth(bugs[i].created_at) = AbsMonth(now) - 1})
        /\ stats.lastYearEarnings =
            SumAt(bugs, {i \in Idx(bugs) : bugs[i].created_at.y = now.y - 1})

-----------------------------------------------------------------------------
\* C5: the four calendar-bucketed earnings sums are computed from the
\* unfiltered collection: for a fixed collection and clock they have the
\* same values under every window selector, even when the selector removes
\* the contributing records from totalBugs and totalEarnings.
CalendarSums(st) ==
    <<st.thisMonthEarnings, st.lastMonthEarnings,
      st.thisYearEarnings, st.lastYearEarnings>>

C5_CalendarSumsIgnoreWindow ==
    Ran =>
        \A range \in TimeRanges :
            CalendarSums(stats) =
                CalendarSums(calculateStats(
                    filterBugsByTimeRange(bugs, range, now), bugs, now))

\* C5 witness: under month a record of last month is filtered out of the
\* totals and still counted in the last-month sum.
C5_Witness ==
    /\ Ran /\ timeRange = "month"
    /\ Len(bugs) = 2 /\ stats.totalBugs = 1
    /\ stats.totalEarnings = 0
    /\ stats.lastMonthEarnings = 100

-----------------------------------------------------------------------------
\* C6: the Monthly Series always has exactly 12 buckets, one per calendar
\* month of the trailing 12 months ending at the current month, oldest
\* first, for every input collection including the empty one.
LabelOf(absMonth) == <<absMonth % 12, (absMonth \div 12) % 100>>

C6_TwelveBuckets ==
    Ran =>
        /\ Len(monthlyData) = 12
        /\ \A i \in 1..12 :
            monthlyData[i].month = LabelOf(AbsMonth(now) - (12 - i))

\* C6 witness: the series of the empty collection, with the clock in January
\* (the window reaches back into the year before).
C6_Witness ==
    /\ Ran /\ bugs = <<>> /\ now.m = 0
    /\ Len(monthlyData) = 12
    /\ monthlyData[1].month = <<1, (now.y - 1) % 100>>
    /\ monthlyData[12].month = <<0, now.y % 100>>

-----------------------------------------------------------------------------
\* C7: a record adds to a Monthly Series bucket (submissions, earnings,
\* acceptedCount) if and only if its created_at calendar month and year are
\* that bucket's; a record created outside the trailing 12 months changes no
\* bucket, under every window selector.
InBucket(i) ==
    {j \in Idx(filteredBugs) :
        AbsMonth(filteredBugs[j].created_at) = AbsMonth(now) - (12 - i)}

C7_BucketByMonthAndYear ==
    Ran =>
        \A i \in Idx(monthlyData) :
            /\ monthlyData[i].submissions = Cardinality(InBucket(i))
            /\ monthlyData[i].earnings = SumAt(filteredBugs, InBucket(i))
            /\ monthlyData[i].accepted = AcceptedAt(filteredBugs, InBucket(i))

\* C7 witness: under all, one record of the current month is counted in the
\* last bucket, and one of the same month of the year before in no bucket.
C7_Witness ==
    /\ Ran /\ timeRange = "all" /\ Len(filteredBugs) = 2
    /\ AbsMonth(filteredBugs[1].created_at) = AbsMonth(now)
    /\ AbsMonth(filteredBugs[2].created_at) = AbsMonth(now) - 12
    /\ monthlyData[12].submissions = 1
    /\ monthlyData[12].earnings = 100
    /\ monthlyData[12].accepted = 1
    /\ \A i \in 1..11 : monthlyData[i].submissions = 0

-----------------------------------------------------------------------------
\* C2: every successRate the engine outputs (Summary Stats, each Platform
\* Rollup group, each Program Leaderboard group) lies in [0,100], equals
\* accepted/(accepted+rejected)*100 over the records of that group (rounded
\* to the nearest integer in the two rollups), and is 0 whenever the group
\* has no accepted or rejected record; it is never NaN or infinite.
C2_SuccessRates ==
    Ran =>
        /\ LET a == AcceptedAt(filteredBugs, Idx(filteredBugs))
               r == RejectedAt(filteredBugs, Idx(filteredBugs))
           IN  /\ stats.successRate.den > 0
               /\ FracLe(Zero, stats.successRate)
               /\ FracLe(stats.successRate, Frac(100, 1))
               /\ IF a + r = 0 THEN stats.successRate.num = 0
                  ELSE FracEq(stats.successRate, Frac(100 * a, a + r))
        /\ \A g \in Idx(platformData) :
            IsGroupRate(platformData[g].successRate, filteredBugs,
                {i \in Idx(filteredBugs) :
                    PlatformOf(filteredBugs[i]) = platformData[g].name})
        /\ \A g \in Idx(topPrograms) :
            IsGroupRate(topPrograms[g].successRate, filteredBugs,
                {i \in Idx(filteredBugs) :
                    ProgramOf(filteredBugs[i]) = topPrograms[g].name})

\* C2 witness: two accepted records and a rejected one in one platform group
\* and one program group: the overall rate is 200/3 and both rollups round
\* it to 67.
C2_Witness ==
    /\ Ran /\ Len(filteredBugs) = 3
    /\ FracEq(stats.successRate, Frac(200, 3))
    /\ Len(platformData) = 1 /\ platformData[1].successRate = 67
    /\ Len(topPrograms) = 1 /\ topPrograms[1].successRate = 67

-----------------------------------------------------------------------------
\* C3: for every filtered collection, totalEarnings is the sum of
\* bounty_amount with null counted as 0, and the earningsSum of the Platform
\* Rollup groups computed from the same collection add up to totalEarnings
\* (the groups partition the records).
C3_PlatformsPartitionEarnings ==
    Ran =>
        /\ stats.totalEarnings = SumAt(filteredBugs, Idx(filteredBugs))
        /\ SumEarnings(platformData) = stats.totalEarnings

-----------------------------------------------------------------------------
-----------------------------------------------------------------------------
\* C10: a record whose status is outside acceptedStatuses, rejectedStatuses
\* and pendingStatuses adds 1 to totalBugs and appears in the status
\* distribution, but adds to none of acceptedBugs, rejectedBugs, pendingBugs
\* and does not change successRate; so acceptedBugs + rejectedBugs +
\* pendingBugs <= totalBugs, with equality exactly when every filtered record
\* has a recognised status.
Recognised ==
    {"Accepted", "Resolved", "Bounty Awarded", "Duplicate", "Not Applicable",
     "Draft", "Submitted", "Triaged"}

C10_OtherStatuses ==
    Ran =>
        LET all == Idx(filteredBugs)
            other == {i \in all : filteredBugs[i].status \notin Recognised}
            classed == stats.acceptedBugs + stats.rejectedBugs + stats.pendingBugs
            IsRecognised(bug) == bug.status \in Recognised
            without == SelectSeq(filteredBugs, IsRecognised)
        IN  /\ stats.totalBugs = Len(filteredBugs)
            /\ stats.acceptedBugs = AcceptedAt(filteredBugs, all \ other)
            /\ stats.rejectedBugs = RejectedAt(filteredBugs, all \ other)
            /\ stats.pendingBugs = PendingAt(filteredBugs, all \ other)
            /\ classed + Cardinality(other) = stats.totalBugs
            /\ classed <= stats.totalBugs
            /\ (classed = stats.totalBugs) <=> (other = {})
            /\ \A i \in other :
                \E e \in Idx(statusData) :
                    /\ statusData[e].name = filteredBugs[i].status
                    /\ statusData[e].value =
                        Cardinality({j \in all :
                            filteredBugs[j].status = filteredBugs[i].status})
            /\ FracEq(stats.successRate,
                      calculateStats(without, bugs, now).successRate)

\* C10 witness: an accepted, a rejected and an Informative record: three
\* bugs in total, two of them classed, a rate of 50.
C10_Witness ==
    /\ Ran /\ stats.totalBugs = 3
    /\ stats.acceptedBugs = 1 /\ stats.rejectedBugs = 1 /\ stats.pendingBugs = 0
    /\ \E i \in Idx(filteredBugs) : filteredBugs[i].status = "Informative"
    /\ \E e \in Idx(statusData) :
        statusData[e].name = "Informative" /\ statusData[e].value = 1
    /\ FracEq(stats.successRate, Frac(50, 1))

-----------------------------------------------------------------------------
\* C8: the Program Leaderboard has min(5, number of program groups) entries,
\* is sorted non-increasing by earningsSum, and is a true top 5: no program
\* group left out has an earningsSum strictly greater than one included.
ProgramGroups == {ProgramOf(filteredBugs[i]) : i \in Idx(filteredBugs)}

GroupEarnings(name) ==
    SumAt(filteredBugs,
          {i \in Idx(filteredBugs) : ProgramOf(filteredBugs[i]) = name})

-----------------------------------------------------------------------------
\* C11: each distribution (severity, status) has exactly one entry per
\* distinct value occurring in the filtered collection, whose count is the
\* number of filtered records with that value: every count is at least 1, no
\* value absent from the data has an entry, the counts sum to totalBugs, and
\* a value without a known display color is counted like any other.
RECURSIVE SumValues(_)
SumValues(entries) ==
    IF entries = <<>> THEN 0 ELSE Head(entries).value + SumValues(Tail(entries))

\* entries is the distribution of values, the sequence of the filtered
\* records' values of one field
IsDistribution(entries, values) ==
    /\ {entries[e].name : e \in Idx(entries)} = {values[i] : i \in Idx(values)}
    /\ \A e, f \in Idx(entries) : entries[e].name = entries[f].name => e = f
    /\ \A e \in Idx(entries) :
        /\ entries[e].value >= 1
        /\ entries[e].value =
            Cardinality({i \in Idx(values) : values[i] = entries[e].name})
    /\ SumValues(entries) = stats.totalBugs

C11_OneEntryPerValue ==
    Ran =>
        /\ IsDistribution(severityData,
                [i \in Idx(filteredBugs) |-> filteredBugs[i].severity])
        /\ IsDistribution(statusData,
                [i \in Idx(filteredBugs) |-> filteredBugs[i].status])

\* C11 witness: under month, two records of the status New (no display
\* color) and of two severities are counted, and a third one, of last year
\* and of another status, has no entry.
C11_Witness ==
    /\ Ran /\ timeRange = "month"
    /\ Len(bugs) = 3 /\ Len(filteredBugs) = 2
    /\ Len(statusData) = 1
    /\ statusData[1].name = "New" /\ statusData[1].value = 2
    /\ statusData[1].color = "#6b7280"
    /\ Len(severityData) = 2
    /\ \E i \in Idx(bugs) : bugs[i].status = "Resolved"

-----------------------------------------------------------------------------
\* C12: filterBugsByTimeRange with the selector all, or with any selector
\* value that is not one of the four tokens, returns the full input
\* collection unchanged, in the same order.
OtherSelectors == {"all", "", "week", "Month", "ALL", "12months"}

C12_OtherSelectorsKeepAll ==
    /\ \A range \in OtherSelectors :
            /\ filterBugsByTimeRange(db, range, now) = db
            /\ filterBugsByTimeRange(filteredBugs, range, now) = filteredBugs
    /\ (Ran /\ timeRange = "all") => (bugs = db /\ filteredBugs = db)

\* C12 witness: the run under all keeps both records of a collection whose
\* first record the year window would drop, and so does a selector that is
\* no token.
C12_Witness ==
    /\ Ran /\ timeRange = "all"
    /\ Len(db) = 2 /\ filteredBugs = db
    /\ db[1].created_at.y = now.y - 1 /\ db[2].created_at.y = now.y
    /\ Len(filterBugsByTimeRange(db, "year", now)) = 1
    /\ filterBugsByTimeRange(db, "week", now) = db

-----------------------------------------------------------------------------
\* C13: filtering is idempotent for every selector: with the clock fixed,
\* filtering an already filtered collection with the same selector returns
\* it unchanged.
C13_FilterIdempotent ==
    /\ \A range \in TimeRanges :
            LET once == filterBugsByTimeRange(db, range, now)
            IN  filterBugsByTimeRange(once, range, now) = once
    /\ Ran => filterBugsByTimeRange(filteredBugs, timeRange, now) = filteredBugs

\* C13 witness: under month the run kept one of two records, and filtering
\* what it kept again keeps that record.
C13_Witness ==
    /\ Ran /\ timeRange = "month"
    /\ Len(db) = 2 /\ Len(filteredBugs) = 1
    /\ filterBugsByTimeRange(filteredBugs, "month", now) = filteredBugs

-----------------------------------------------------------------------------
\* C15: for an empty record collection, under every selector, every Summary
\* Stats field is 0 (successRate, avgBounty and avgTimeToResolution
\* included), the Monthly Series has 12 buckets that are all zero, and the
\* severity distribution, the status distribution, the Platform Rollup and
\* the Program Leaderboard are empty.
C15_EmptyCollection ==
    (Ran /\ db = <<>>) =>
        /\ bugs = <<>> /\ filteredBugs = <<>>
        /\ \A field \in {"totalBugs", "totalEarnings", "acceptedBugs",
                          "rejectedBugs", "pendingBugs", "thisMonthEarnings",
                          "lastMonthEarnings", "thisYearEarnings",
                          "lastYearEarnings"} : stats[field] = 0
        /\ \A field \in {"successRate", "avgBounty", "avgTimeToResolution"} :
                stats[field].num = 0 /\ stats[field].den > 0
        /\ DOMAIN stats =
                {"totalBugs", "totalEarnings", "acceptedBugs", "rejectedBugs",
                 "pendingBugs", "thisMonthEarnings", "lastMonthEarnings",
                 "thisYearEarnings", "lastYearEarnings", "successRate",
                 "avgBounty", "avgTimeToResolution"}
        /\ Len(monthlyData) = 12
        /\ \A i \in 1..12 :
            /\ monthlyData[i].earnings = 0
            /\ monthlyData[i].submissions = 0
            /\ monthlyData[i].accepted = 0
        /\ severityData = <<>>
        /\ statusData = <<>>
        /\ platformData = <<>>
        /\ topPrograms = <<>>

\* C15 witness: the run under month over the empty collection has ended
\* with its twelve buckets.
C15_Witness ==
    /\ Ran /\ db = <<>> /\ timeRange = "month"
    /\ outcome = "ok"
    /\ stats.totalBugs = 0 /\ stats.avgBounty.num = 0
    /\ Len(monthlyData) = 12
    /\ monthlyData[12].month = <<now.m, now.y % 100>>
    /\ topPrograms = <<>>

-----------------------------------------------------------------------------
\* C14: when the record fetch fails (the source returns an error or a call
\* throws), the failure is reported to the presentation layer, as the
\* destructive toast "Failed to fetch analytics data" with loading back to
\* false and the aggregates left as they were, and the engine starts no
\* further fetch on its own: a run starts at the mount or at a change of the
\* selector only, and a run that ends starts none.
FailureReport ==
    <<[title |-> "Error", description |-> "Failed to fetch analytics data",
       variant |-> "destructive"]>>

-----------------------------------------------------------------------------
\* C16: thisMonthEarnings counts only the unfiltered records created in
\* [first day of the current month, first day of the next month), and
\* thisYearEarnings only those created in [January 1 of the current year,
\* January 1 of the next year): a record dated at or after the exclusive
\* upper bound is counted in neither.
C16_ThisPeriodsEndWithThePeriod ==
    Ran =>
        /\ stats.thisMonthEarnings =
            SumAt(bugs, {i \in Idx(bugs) :
                            AbsMonth(bugs[i].created_at) = AbsMonth(now)})
        /\ stats.thisYearEarnings =
            SumAt(bugs, {i \in Idx(bugs) : bugs[i].created_at.y = now.y})

-----------------------------------------------------------------------------
\* C17: in the Program Leaderboard, the company recorded for a program group
\* is the company of the last record with that program name in the filtered
\* collection (last-seen wins), also when records of one program name carry
\* different company values.
CompanyOf(bug) ==
    IF bug.programs = <<>> THEN "Unknown"
    ELSE IF bug.programs[1].company = <<>> THEN "Unknown"
    ELSE IF bug.programs[1].company[1] = "" THEN "Unknown"
    ELSE bug.programs[1].company[1]

\* The index in filteredBugs of the last record of the program `name`
LastOf(name) ==
    CHOOSE i \in Idx(filteredBugs) :
        /\ ProgramOf(filteredBugs[i]) = name
        /\ \A j \in Idx(filteredBugs) :
                ProgramOf(filteredBugs[j]) = name => j <= i

C17_CompanyLastSeen ==
    Ran =>
        \A g \in Idx(topPrograms) :
            topPrograms[g].company =
                CompanyOf(filteredBugs[LastOf(topPrograms[g].name)])

-----------------------------------------------------------------------------
\* C18: in the Platform Rollup and the Program Leaderboard, groups with
\* equal earningsSum appear in encounter order, the order in which the first
\* record of each group occurs in the filtered collection, for every group
\* name (names that are strings of digits included).
FirstOfPlatform(name) ==
    CHOOSE i \in Idx(filteredBugs) :
        /\ PlatformOf(filteredBugs[i]) = name
        /\ \A j \in Idx(filteredBugs) :
                PlatformOf(filteredBugs[j]) = name => i <= j

FirstOfProgram(name) ==
    CHOOSE i \in Idx(filteredBugs) :
        /\ ProgramOf(filteredBugs[i]) = name
        /\ \A j \in Idx(filteredBugs) :
                ProgramOf(filteredBugs[j]) = name => i <= j

C18_TiesInEncounterOrder ==
    Ran =>
        /\ \A g, h \in Idx(platformData) :
            (g < h /\ platformData[g].earnings = platformData[h].earnings) =>
                FirstOfPlatform(platformData[g].name)
                    < FirstOfPlatform(platformData[h].name)
        /\ \A g, h \in Idx(topPrograms) :
            (g < h /\ topPrograms[g].earnings = topPrograms[h].earnings) =>
                FirstOfProgram(topPrograms[g].name)
                    < FirstOfProgram(topPrograms[h].name)

-----------------------------------------------------------------------------
\* C19: when two analytics fetches overlap, nothing cancels the earlier
\* one: each response, on arrival, overwrites the record collection and all
\* aggregates with values computed for the window selector captured when
\* its own fetch started, so the aggregates finally displayed are those of
\* the response that arrived last, even if its fetch was started first and
\* a different window is now selected.
WindowOf(list, range) ==
    IF range \in {"month", "6months", "year"}
    THEN LET I == {i \in Idx(list) :
                    AtOrAfter(list[i].created_at, WindowStartOf(range))}
         IN  [j \in 1..Cardinality(I) |-> list[Nth(I, j)]]
    ELSE list

-----------------------------------------------------------------------------
\* C20: records are fetched from the Record Source once; every later change
\* of the time window recomputes the aggregates from the record collection
\* in memory without starting another fetch.
C20_WindowChangeRecomputesInMemory ==
    [][timeRange' # timeRange =>
            /\ inflight' = inflight
            /\ bugs' = bugs
            /\ filteredBugs' = WindowOf(bugs, timeRange')
            /\ stats' = calculateStats(filteredBugs', bugs, now)
      ]_vars

-----------------------------------------------------------------------------
\* C21: avgTimeToResolution equals the sum, over the filtered records that
\* have both submission_date and resolution_date, of the whole days from the
\* one to the other, divided by the number of those records; negative
\* differences are included unclamped, records missing either date are
\* ignored, and the result is 0 when no record qualifies.
Dated ==
    {i \in Idx(filteredBugs) :
        /\ filteredBugs[i].submission_date # <<>>
        /\ filteredBugs[i].resolution_date # <<>>}

RECURSIVE SumDaysAt(_)
SumDaysAt(I) ==
    IF I = {} THEN 0
    ELSE LET i == CHOOSE i \in I : TRUE
         IN  (filteredBugs[i].resolution_date[1]
              - filteredBugs[i].submission_date[1]) + SumDaysAt(I \ {i})

C21_MeanDaysToResolution ==
    Ran =>
        /\ stats.avgTimeToResolution.den > 0
        /\ IF Dated = {} THEN stats.avgTimeToResolution.num = 0
           ELSE stats.avgTimeToResolution.num * Cardinality(Dated) =
                    SumDaysAt(Dated) * stats.avgTimeToResolution.den

\* C21 witness: of three records, one resolved 2 days after its submission,
\* one resolved 7 days before it and one without a resolution date: the
\* mean over the two dated ones is -5/2.
C21_Witness ==
    /\ Ran /\ Len(filteredBugs) = 3
    /\ Cardinality(Dated) = 2
    /\ SumDaysAt(Dated) = 0 - 5
    /\ stats.avgTimeToResolution.num * 2 = (0 - 5) * stats.avgTimeToResolution.den

-----------------------------------------------------------------------------
\* C22: avgBounty equals totalEarnings divided by the number of filtered
\* records with bounty_amount > 0, and is 0 when there is no such record;
\* records with a null or zero bounty_amount do not enter the divisor.
Paid == {i \in Idx(filteredBugs) : Amount(filteredBugs[i]) > 0}

C22_MeanPositiveBounty ==
    Ran =>
        /\ stats.avgBounty.den > 0
        /\ stats.totalEarnings = SumAt(filteredBugs, Idx(filteredBugs))
        /\ IF Paid = {} THEN stats.avgBounty.num = 0
           ELSE stats.avgBounty.num * Cardinality(Paid) =
                    stats.totalEarnings * stats.avgBounty.den

\* C22 witness: three records, with bounties null, 0 and 100: the average
\* is 100 over the one paid record.
C22_Witness ==
    /\ Ran /\ Len(filteredBugs) = 3
    /\ \E i \in Idx(filteredBugs) : filteredBugs[i].bounty_amount = <<>>
    /\ \E i \in Idx(filteredBugs) : filteredBugs[i].bounty_amount = <<0>>
    /\ Cardinality(Paid) = 1
    /\ stats.avgBounty.num = 100 * stats.avgBounty.den

-----------------------------------------------------------------------------
\* C23: no filter or aggregator pass changes the record collection it is
\* given (neither the records' fields nor their order), and each aggregate
\* output is written only by its own aggregator: whatever the order in which
\* the six passes of a run are taken, the collections stay as fetched and
\* filtered and each pass that has been taken has left the output that it
\* computes from them.
PassesTaken ==
    IF inflight # <<>> /\ inflight[1].at = "passes"
    THEN {"stats", "monthly", "severity", "status", "platform", "programs"}
            \ inflight[1].todo
    ELSE IF loading = FALSE /\ outcome = "ok"
    THEN {"stats", "monthly", "severity", "status", "platform", "programs"}
    ELSE {}

-----------------------------------------------------------------------------
-----------------------------------------------------------------------------
-----------------------------------------------------------------------------
-----------------------------------------------------------------------------
\* C27: for every record collection and every clock the windows nest:
\* filter(month) is contained in filter(6months) and in filter(year), and
\* each of them is contained in filter(all); so totalBugs under month never
\* exceeds totalBugs under 6months, year or all.
RECURSIVE IsSubsequence(_, _)
IsSubsequence(a, b) ==
    IF a = <<>> THEN TRUE
    ELSE IF b = <<>> THEN FALSE
    ELSE IF Head(a) = Head(b) THEN IsSubsequence(Tail(a), Tail(b))
    ELSE IsSubsequence(a, Tail(b))

TotalUnder(range) ==
    calculateStats(filterBugsByTimeRange(db, range, now), db, now).totalBugs

C27_WindowsNest ==
    LET month == filterBugsByTimeRange(db, "month", now)
        half == filterBugsByTimeRange(db, "6months", now)
        year == filterBugsByTimeRange(db, "year", now)
        all == filterBugsByTimeRange(db, "all", now)
    IN  /\ IsSubsequence(month, half)
        /\ IsSubsequence(month, year)
        /\ IsSubsequence(month, all)
        /\ IsSubsequence(half, all)
        /\ IsSubsequence(year, all)
        /\ TotalUnder("month") <= TotalUnder("6months")
        /\ TotalUnder("month") <= TotalUnder("year")
        /\ TotalUnder("6months") <= TotalUnder("all")
        /\ TotalUnder("year") <= TotalUnder("all")
        /\ (Ran /\ timeRange = "month") =>
                /\ stats.totalBugs <= TotalUnder("6months")
                /\ stats.totalBugs <= TotalUnder("year")
                /\ IsSubsequence(filteredBugs, half)
                /\ IsSubsequence(filteredBugs, year)

\* C27 witness: in mid-March the run under month kept none of two records,
\* one of February (in the year and 6months windows) and one of the
\* December before (in the 6months window only).
C27_Witness ==
    /\ Ran /\ timeRange = "month" /\ now.m = 2
    /\ Len(db) = 2 /\ stats.totalBugs = 0
    /\ AbsMonth(db[1].created_at) = AbsMonth(now) - 1
    /\ AbsMonth(db[2].created_at) = AbsMonth(now) - 3
    /\ TotalUnder("year") = 1
    /\ TotalUnder("6months") = 2
    /\ TotalUnder("all") = 2

-----------------------------------------------------------------------------
\* C28: the Average Bounty by Severity panel is computed from the unfiltered
\* collection: after a run, under whichever selector, each tile's count and
\* average are those of all fetched records of that severity, and the count
\* is at least the count of that severity in the severity distribution.
DistributionCount(severity) ==
    LET hit == {i \in 1..Len(severityData) : severityData[i].name = severity}
    IN  IF hit = {} THEN 0 ELSE severityData[CHOOSE i \in hit : TRUE].value

AllOfSeverity(severity) ==
    {i \in 1..Len(db) : db[i].severity = severity}

PaidOfSeverity(severity) ==
    {i \in AllOfSeverity(severity) : Amount(db[i]) > 0}

C28_SeverityPanelUnfiltered ==
    Ran =>
        LET panel == SeverityPanel(bugs, filteredBugs)
        IN  /\ Len(panel) = 5
            /\ \A i \in 1..5 :
                LET tile == panel[i]
                    paid == PaidOfSeverity(tile.severity)
                IN  /\ tile.severity = PanelSeverities[i]
                    /\ tile.count = Cardinality(AllOfSeverity(tile.severity))
                    /\ tile.count >= DistributionCount(tile.severity)
                    /\ tile.avgAmount.den > 0
                    /\ IF paid = {} THEN tile.avgAmount.num = 0
                       ELSE tile.avgAmount.num * Cardinality(paid) =
                            SumAt(db, paid) * tile.avgAmount.den

\* C28 witness: under the month window, which keeps one of three Critical
\* records, the Critical tile still counts three and averages the two paid
\* ones (100 and 250) to 175, while the distribution counts one.
C28_Witness ==
    /\ Ran /\ timeRange = "month"
    /\ Len(db) = 3 /\ Len(filteredBugs) = 1
    /\ DistributionCount("Critical") = 1
    /\ SeverityPanel(bugs, filteredBugs)[1].count = 3
    /\ FracEq(SeverityPanel(bugs, filteredBugs)[1].avgAmount, Frac(175, 1))

-----------------------------------------------------------------------------
\* C29: opening a report for editing, changing a collaborator's name or
\* percentage in the modal and closing the modal without saving leaves the
\* collaborators of that report in the parent's report list unchanged: with
\* no save made, whenever the modal is closed the collaborators of every
\* report in the list are those of the row it was fetched from.
ReportCollaborators(r) ==
    [i \in 1..Len(reports[r].collaborators) |->
        heap[reports[r].collaborators[i]]]

C29_CloseWithoutSaveKeepsReports ==
    ~isModalOpen =>
        \A r \in 1..Len(reports) :
            ReportCollaborators(r) = CollaboratorsOrEmpty(db[r])

-----------------------------------------------------------------------------
\* C30: after any number of toggleChecklistItem calls on one item have
\* completed, overlapping ones included, the item's local completed flag is
\* its initial value flipped once per call, and it is the value last
\* written to the database.  (Stated for the calls that all wrote to the
\* database.)
Flipped(flag, times) == IF times % 2 = 0 THEN flag ELSE ~flag

C30_FlippedOncePerCall ==
    (toggles = <<>> /\ calls.made > 0 /\ calls.written = calls.made) =>
        /\ checklists = Flipped(CompletedOrFalse(db[1]), calls.made)
        /\ checklists = is_completed

=============================================================================
